---- MODULE Spec2Model ----
(***************************************************************************)
(* A model of the two scripts of Archive_Assignmnet2:                      *)
(*   download_data.py   - Pipeline A, the bounded NDJSON line saver        *)
(*   scraping_covers.py - Pipeline B, the playlist thumbnail scraper       *)
(*                                                                         *)
(* What the scripts are given varies freely: the bytes of the response     *)
(* body, the row counts and attribute values the page shows, the outcome   *)
(* of each HTTP transfer, the image received.  Failures of the machine     *)
(* the scripts run on (a full disk, a browser that dies) are not modelled. *)
(*                                                                         *)
(* SpecA runs download_data.py, SpecB runs scrape_thumbnails, SpecC calls  *)
(* crop_to_16_9 on one file; the variables of the parts that do not run    *)
(* keep their idle values.                                                 *)
(***************************************************************************)
EXTENDS Integers, Sequences, FiniteSets, TLC

(***************************************************************************)
(* Bounds of the model.                                                    *)
(***************************************************************************)
\* widest and tallest image handed to crop_to_16_9 on its own
MaxWidth == 20
MaxHeight == 16
\* calls of crop_to_16_9 made on one file
MaxCalls == 2
\* largest row count the playlist page shows
MaxCount == 3
\* most thumbnail elements the page holds
MaxImages == 2
\* longest source stream, in lines
MaxLines == 3
\* largest configured MAX_LINES_TO_SAVE
MaxN == 2

(***************************************************************************)
(* Pipeline A: download_data.py                                            *)
(***************************************************************************)
VARIABLES
    stream,             \* the response body: a sequence of raw lines (bytes)
    MAX_LINES_TO_SAVE,  \* the configured maximum
    pcA,                \* position of the script
    pos,                \* number of raw lines fetched from text_stream
    line,               \* the loop variable: the decoded line in hand
    lines_saved,        \* the counter
    outfile,            \* content of OUTPUT_FILENAME, a flat character sequence
    parsed              \* number of json.loads calls made

varsA == <<stream, MAX_LINES_TO_SAVE, pcA, pos, line, lines_saved, outfile, parsed>>

\* Pipeline B: scraping_covers.py, scrape_thumbnails and what it calls
VARIABLES
    pcB,                    \* position of scrape_thumbnails
    last_video_count,       \* scroll_to_end: the remembered row count
    consecutive_same_count, \* scroll_to_end: the stall counter
    current_video_count,    \* scroll_to_end: the row count of the latest attempt
    max_observed,           \* history: largest row count any attempt observed
    since_growth,           \* history: attempts since one beat every earlier count
    images,                 \* number of elements page.locator(...).all() returned
    idx,                    \* i + 1 of the element in hand (0 before the first)
    src,                    \* the attribute value last read
    attempt,                \* polling attempts completed without success
    reads,                  \* history: get_attribute calls for this element
    bad_reads,              \* history: those that returned empty or placeholder
    slept,                  \* history: time.sleep(wait_step) calls for this element
    cleaned_src,            \* src without its query component
    local_path,             \* what download_file returned: a path or None
    disk,                   \* OUTPUT_DIR: filename ordinal -> file content
    item_state,             \* history: ordinal -> state of the per-item machine
    downloaded_count        \* the counter printed at the end

varsB == <<pcB, last_video_count, consecutive_same_count, current_video_count,
           max_observed, since_growth, images, idx, src, attempt, reads,
           bad_reads, slept, cleaned_src, local_path, disk, item_state,
           downloaded_count>>

\* crop_to_16_9 applied on its own to one image file
VARIABLES
    pcC,        \* "ready", or "raised" once the image could not be processed
    file,       \* the image file at file_path
    original,   \* history: the file before the first call
    after_first,\* history: the file after the first call
    calls,      \* history: calls of crop_to_16_9 made
    saves       \* history: calls of cropped_img.save made

varsC == <<pcC, file, original, after_first, calls, saves>>

vars == <<varsA, varsB, varsC>>

\* The part of the state a pipeline that is not running keeps.
IdleA ==
    /\ stream = <<>>
    /\ MAX_LINES_TO_SAVE = 0
    /\ pcA = "idle"
    /\ pos = 0
    /\ line = <<>>
    /\ lines_saved = 0
    /\ outfile = <<>>
    /\ parsed = 0

IdleB ==
    /\ pcB = "idle"
    /\ last_video_count = 0
    /\ consecutive_same_count = 0
    /\ current_video_count = 0
    /\ max_observed = 0
    /\ since_growth = 0
    /\ images = 0
    /\ idx = 0
    /\ src = <<"None">>
    /\ attempt = 0
    /\ reads = 0
    /\ bad_reads = 0
    /\ slept = 0
    /\ cleaned_src = <<"None">>
    /\ local_path = 0
    /\ disk = <<>>
    /\ item_state = <<>>
    /\ downloaded_count = 0

\* What a path of OUTPUT_DIR can hold.  An image is w pixels wide and shows
\* the rows top..bottom-1 of the picture the server sent.
Absent == [kind |-> "absent", w |-> 0, top |-> 0, bottom |-> 0]
\* the first chunks of a body whose transfer broke off
Partial == [kind |-> "partial", w |-> 0, top |-> 0, bottom |-> 0]
\* bytes no image decoder accepts (an error page, an empty file)
Garbage == [kind |-> "garbage", w |-> 0, top |-> 0, bottom |-> 0]
Picture(width, height) == [kind |-> "image", w |-> width, top |-> 0, bottom |-> height]

IdleC ==
    /\ pcC = "idle"
    /\ file = Absent
    /\ original = Absent
    /\ after_first = Absent
    /\ calls = 0
    /\ saves = 0

LF == "LF"
CR == "CR"
Whitespace == {LF, CR, " "}

\* The line bodies the model streams: valid values, malformed text, the
\* blank line and a line holding a byte that is not UTF-8 ("xFF").
Bodies ==
    { <<"1">>, <<"[", "]">>, <<"[", "1", "]">>, <<"[">>, <<>>, <<"xFF">> }

\* Line terminators on the wire; the last line of a body may have none.
Terminators == { <<LF>>, <<CR, LF>> }

RawLines == { b \o t : b \in Bodies, t \in Terminators }
LastRawLines == RawLines \cup (Bodies \ {<<>>})

Streams ==
    { s \in UNION { [1..n -> RawLines \cup LastRawLines] : n \in 0..MaxLines } :
        \A i \in 1..Len(s) : i < Len(s) => s[i] \in RawLines }

\* TextIOWrapper(response, encoding='utf-8') reads in universal-newlines mode:
\* a "\r\n" (or "\r") terminator is handed to the program as "\n".
Decode(raw) ==
    LET n == Len(raw) IN
    IF n >= 2 /\ raw[n-1] = CR /\ raw[n] = LF THEN SubSeq(raw, 1, n-2) \o <<LF>>
    ELSE IF n >= 1 /\ raw[n] = CR THEN SubSeq(raw, 1, n-1) \o <<LF>>
    ELSE raw

\* TextIOWrapper decodes strictly: a byte that is not UTF-8 raises
\* UnicodeDecodeError instead of yielding text.
IsUtf8(raw) == \A i \in 1..Len(raw) : raw[i] # "xFF"

\* json.loads skips leading whitespace, scans one value and accepts only
\* whitespace after it.  SkipWs is the index of the first non-blank at or
\* after i; ScanValue is the index just past the value starting at i, or 0.
RECURSIVE SkipWs(_, _)
SkipWs(s, i) ==
    IF i <= Len(s) /\ s[i] \in Whitespace THEN SkipWs(s, i + 1) ELSE i

RECURSIVE ScanValue(_, _)
ScanValue(s, i) ==
    IF i > Len(s) THEN 0
    ELSE IF s[i] = "1" THEN i + 1
    ELSE IF s[i] = "[" THEN
        LET j == SkipWs(s, i + 1) IN
        IF j <= Len(s) /\ s[j] = "]" THEN j + 1
        ELSE LET k == ScanValue(s, j) IN
             IF k = 0 THEN 0
             ELSE LET m == SkipWs(s, k) IN
                  IF m <= Len(s) /\ s[m] = "]" THEN m + 1 ELSE 0
    ELSE 0

\* TRUE when json.loads(s) returns, FALSE when it raises JSONDecodeError.
JsonLoads(s) ==
    LET k == ScanValue(s, SkipWs(s, 1)) IN
    k # 0 /\ SkipWs(s, k) = Len(s) + 1

InitA ==
    /\ stream \in Streams
    /\ MAX_LINES_TO_SAVE \in 0..MaxN
    /\ pcA = "start"
    /\ pos = 0
    /\ line = <<>>
    /\ lines_saved = 0
    /\ outfile = <<>>
    /\ parsed = 0
    /\ IdleB
    /\ IdleC

\* urlopen succeeds and open(OUTPUT_FILENAME, 'w') creates the empty file.
Connect ==
    /\ pcA = "start"
    /\ pcA' = "for"
    /\ outfile' = <<>>
    /\ lines_saved' = 0
    /\ UNCHANGED <<stream, MAX_LINES_TO_SAVE, pos, line, parsed>>
    /\ UNCHANGED <<varsB, varsC>>

\* urlopen raises URLError: reported, nothing is opened.
ConnectFail ==
    /\ pcA = "start"
    /\ pcA' = "url_error"
    /\ UNCHANGED <<stream, MAX_LINES_TO_SAVE, pos, line, lines_saved, outfile, parsed>>
    /\ UNCHANGED <<varsB, varsC>>

\* "for line in text_stream": the iterator hands over the next line.
NextLine ==
    /\ pcA = "for"
    /\ pos < Len(stream)
    /\ IsUtf8(stream[pos + 1])
    /\ pos' = pos + 1
    /\ line' = Decode(stream[pos + 1])
    /\ pcA' = "body"
    /\ UNCHANGED <<stream, MAX_LINES_TO_SAVE, lines_saved, outfile, parsed>>
    /\ UNCHANGED <<varsB, varsC>>

\* "for line in text_stream": the decoder meets a byte that is not UTF-8.  It
\* decodes a chunk at a time, so the error can surface while a line before the
\* offending one is being fetched.  UnicodeDecodeError is no JSONDecodeError
\* and no URLError: the outer "except Exception" ends the run.
DecodeError ==
    /\ pcA = "for"
    /\ \E k \in (pos + 1)..Len(stream) : ~IsUtf8(stream[k])
    /\ pcA' = "unexpected_error"
    /\ UNCHANGED <<stream, MAX_LINES_TO_SAVE, pos, line, lines_saved, outfile, parsed>>
    /\ UNCHANGED <<varsB, varsC>>

\* "for line in text_stream": the stream is exhausted, the loop ends.
EndOfStream ==
    /\ pcA = "for"
    /\ pos = Len(stream)
    /\ pcA' = "success"
    /\ UNCHANGED <<stream, MAX_LINES_TO_SAVE, pos, line, lines_saved, outfile, parsed>>
    /\ UNCHANGED <<varsB, varsC>>

\* A slip in the comparison: one line too many is let through.
LimitExceeded == lines_saved > MAX_LINES_TO_SAVE

\* "if lines_saved >= MAX_LINES_TO_SAVE: break"
LimitReached == lines_saved >= MAX_LINES_TO_SAVE

BreakAtLimit ==
    /\ pcA = "body"
    /\ LimitReached
    /\ pcA' = "success"
    /\ UNCHANGED <<stream, MAX_LINES_TO_SAVE, pos, line, lines_saved, outfile, parsed>>
    /\ UNCHANGED <<varsB, varsC>>

\* json.loads(line) returns: the line is written and counted.
SaveLine ==
    /\ pcA = "body"
    /\ ~LimitReached
    /\ JsonLoads(line)
    /\ parsed' = parsed + 1
    /\ outfile' = outfile \o line
    /\ lines_saved' = lines_saved + 1
    /\ pcA' = "for"
    /\ UNCHANGED <<stream, MAX_LINES_TO_SAVE, pos, line>>
    /\ UNCHANGED <<varsB, varsC>>

\* json.loads(line) raises JSONDecodeError: the line is skipped.
SkipMalformed ==
    /\ pcA = "body"
    /\ ~LimitReached
    /\ ~JsonLoads(line)
    /\ parsed' = parsed + 1
    /\ pcA' = "for"
    /\ UNCHANGED <<stream, MAX_LINES_TO_SAVE, pos, line, lines_saved, outfile>>
    /\ UNCHANGED <<varsB, varsC>>

NextA ==
    \/ Connect
    \/ ConnectFail
    \/ NextLine
    \/ DecodeError
    \/ EndOfStream
    \/ BreakAtLimit
    \/ SaveLine
    \/ SkipMalformed

SpecA == InitA /\ [][NextA]_vars

(***************************************************************************)
(* Properties of Pipeline A                                                *)
(***************************************************************************)
\* The lines of a text file: each runs up to and including its "\n"; a last
\* line may lack it.
RECURSIVE FileLines(_)
FileLines(content) ==
    IF content = <<>> THEN <<>>
    ELSE LET ends == { i \in 1..Len(content) : content[i] = LF }
             cut == IF ends = {} THEN Len(content)
                    ELSE CHOOSE i \in ends : \A j \in ends : i <= j
         IN <<SubSeq(content, 1, cut)>> \o FileLines(SubSeq(content, cut + 1, Len(content)))

RECURSIVE Flatten(_)
Flatten(ls) == IF ls = <<>> THEN <<>> ELSE Head(ls) \o Flatten(Tail(ls))

Min(a, b) == IF a <= b THEN a ELSE b

\* The well-formed lines of the source, in stream order, as sent.
ValidLines == SelectSeq(stream, JsonLoads)

\* The first min(N, V) of them.
FirstValid == SubSeq(ValidLines, 1, Min(MAX_LINES_TO_SAVE, Len(ValidLines)))

\* C1: in every state the output file holds exactly lines_saved lines,
\* lines_saved never exceeds MAX_LINES_TO_SAVE, and every line of the file
\* parses again as JSON.
C1_BoundedValidOutput ==
    /\ Len(FileLines(outfile)) = lines_saved
    /\ lines_saved <= MAX_LINES_TO_SAVE
    /\ \A i \in 1..Len(FileLines(outfile)) : JsonLoads(FileLines(outfile)[i])

\* The limit was reached after a malformed line had been skipped.
C1_Witness ==
    /\ pcA = "success"
    /\ lines_saved = MAX_LINES_TO_SAVE
    /\ lines_saved >= 2
    /\ parsed > lines_saved

\* C2 as stated: a run over a finite stream leaves exactly the first
\* min(N, V) valid lines of the stream in the file, unmodified and in stream
\* order, malformed lines having been skipped.  (The claim adds that the run
\* ends without error; this is what it says of the file of any run that has
\* ended.)
C2_FirstValidLinesSaved ==
    pcA \in {"success", "unexpected_error"} => outfile = Flatten(FirstValid)

\* C3 as stated: once lines_saved has reached MAX_LINES_TO_SAVE no further
\* line is read from the stream, parsed or written.
C3_NothingReadAtLimit ==
    [][(lines_saved >= 1 /\ lines_saved = MAX_LINES_TO_SAVE)
        => (pos' = pos /\ parsed' = parsed /\ outfile' = outfile)]_vars

(***************************************************************************)
(* scraping_covers.py: crop_to_16_9                                        *)
(***************************************************************************)
Height(img) == img.bottom - img.top

\* Image.open(file_path) raises for anything that is not an image.
Decodable(f) == f.kind = "image"

\* int(width * 9 / 16)
target_height(width) == (width * 9) \div 16

\* A slip in the comparison: an image already at 16:9 is rewritten too.
AtLeastTarget(height, target) == height >= target

\* "if height > target_height"
ExceedsTarget(height, target) == height > target

\* height_to_remove // 2
top_margin(height_to_remove) == height_to_remove \div 2

\* A slip in the lower edge: the same margin is taken off both ends.
bottom_margin_symmetric(height, height_to_remove, top) == height - top

\* height - (height_to_remove - top_margin)
bottom_margin(height, height_to_remove, top) == height - (height_to_remove - top)

\* img.crop((left, upper, right, lower)): the region of the box.
crop(img, left, upper, right, lower) ==
    [kind |-> "image", w |-> right - left,
     top |-> img.top + upper, bottom |-> img.top + lower]

\* cropped_img.save(file_path) opens the path for writing, which empties it,
\* and then encodes.  A JPEG cannot hold an image without rows: the encoder
\* raises and the emptied file stays.
save(img) ==
    IF img.w = 0 \/ Height(img) = 0
    THEN [file |-> Garbage, raised |-> TRUE]
    ELSE [file |-> img, raised |-> FALSE]

\* One call of crop_to_16_9 on a file f: the file it leaves, whether save was
\* called, and how the call ended ("cropped", "left" as it was, or "error"
\* when the except clause caught something).
crop_to_16_9(f) ==
    IF ~Decodable(f) THEN [file |-> f, saved |-> FALSE, outcome |-> "error"]
    ELSE
        LET width == f.w
            height == Height(f)
            target == target_height(width)
        IN  IF ExceedsTarget(height, target)
            THEN LET height_to_remove == height - target
                     top == top_margin(height_to_remove)
                     bottom == bottom_margin(height, height_to_remove, top)
                     written == save(crop(f, 0, top, width, bottom))
                 IN [file |-> written.file, saved |-> TRUE,
                     outcome |-> IF written.raised THEN "error" ELSE "cropped"]
            ELSE [file |-> f, saved |-> FALSE, outcome |-> "left"]

InitC ==
    /\ pcC = "ready"
    /\ file \in { Picture(w, h) : w \in 1..MaxWidth, h \in 1..MaxHeight } \cup {Garbage}
    /\ original = file
    /\ after_first = file
    /\ calls = 0
    /\ saves = 0
    /\ IdleA
    /\ IdleB

\* crop_to_16_9(file_path) runs to its end on an image it can open.
CropCall ==
    /\ pcC # "idle"
    /\ calls < MaxCalls
    /\ Decodable(file)
    /\ LET r == crop_to_16_9(file) IN
        /\ file' = r.file
        /\ saves' = saves + (IF r.saved THEN 1 ELSE 0)
        /\ pcC' = r.outcome
        /\ after_first' = IF calls = 0 THEN r.file ELSE after_first
    /\ calls' = calls + 1
    /\ UNCHANGED original
    /\ UNCHANGED <<varsA, varsB>>

\* crop_to_16_9(file_path) on a file Image.open rejects: the error is printed.
CropUnreadable ==
    /\ pcC # "idle"
    /\ calls < MaxCalls
    /\ ~Decodable(file)
    /\ LET r == crop_to_16_9(file) IN
        /\ file' = r.file
        /\ saves' = saves + (IF r.saved THEN 1 ELSE 0)
        /\ pcC' = r.outcome
        /\ after_first' = IF calls = 0 THEN r.file ELSE after_first
    /\ calls' = calls + 1
    /\ UNCHANGED original
    /\ UNCHANGED <<varsA, varsB>>

NextC ==
    \/ CropCall
    \/ CropUnreadable

SpecC == InitC /\ [][NextC]_vars

(***************************************************************************)
(* scraping_covers.py: scroll_to_end, download_file, scrape_thumbnails     *)
(***************************************************************************)
\* "max_attempts = 10", with a slip of one for comparison
max_attempts_short == 10 - 1
max_attempts == 10
max_wait_time == 5
wait_step == 1

\* A slip in the range: one attempt too many.
poll_attempts_long == max_wait_time \div wait_step + 1

\* range(int(max_wait_time / wait_step))
poll_attempts == max_wait_time \div wait_step

\* Attribute values are sequences of tokens; None is the missing attribute.
NoneValue == <<"None">>
SrcValues ==
    { NoneValue, <<>>, <<"data:", "gif">>, <<"https://i/hq.jpg">>,
      <<"https://i/hq.jpg", "?", "sqp">>, <<"?", "sqp">> }

\* "not src"
Falsy(s) == s = NoneValue \/ s = <<>>

\* src.startswith("data:")
StartsWithData(s) == Len(s) >= 1 /\ s[1] = "data:"

\* "src and not src.startswith('data:')"
Populated(s) == ~Falsy(s) /\ ~StartsWithData(s)

\* src.split('?')[0]
RECURSIVE SplitQuery(_)
SplitQuery(s) ==
    IF s = <<>> \/ Head(s) = "?" THEN <<>> ELSE <<Head(s)>> \o SplitQuery(Tail(s))

\* What a thumbnail URL can deliver with a success status: a picture higher
\* than 16:9, one at 16:9, one a single pixel wide, or no picture at all.
ServedFiles == { Picture(16, 12), Picture(16, 9), Picture(1, 1), Garbage }

Max(a, b) == IF a >= b THEN a ELSE b

ScrollLocals == <<last_video_count, consecutive_same_count, current_video_count,
                  max_observed, since_growth>>
ItemLocals == <<idx, src, attempt, reads, bad_reads, slept, cleaned_src, local_path>>

InitB ==
    /\ pcB = "scroll"
    /\ last_video_count = 0
    /\ consecutive_same_count = 0
    /\ current_video_count = 0
    /\ max_observed = 0
    /\ since_growth = 0
    /\ images = 0
    /\ idx = 0
    /\ src = NoneValue
    /\ attempt = 0
    /\ reads = 0
    /\ bad_reads = 0
    /\ slept = 0
    /\ cleaned_src = NoneValue
    /\ local_path = 0
    /\ disk = [i \in 1..MaxImages |-> Absent]
    /\ item_state = <<>>
    /\ downloaded_count = 0
    /\ IdleA
    /\ IdleC

\* A slip in the comparison: a count that merely holds counts as growth.
GrewOrHeld(current, last) == current >= last

\* "if current_video_count > last_video_count"
Grew(current, last) == current > last

\* "while consecutive_same_count < max_attempts"
Scrolling == consecutive_same_count < max_attempts

\* One pass of the while body: scroll, sleep, count the rows, compare.
ScrollAttempt ==
    /\ pcB = "scroll"
    /\ Scrolling
    /\ \E count \in 0..MaxCount :
        /\ current_video_count' = count
        /\ IF Grew(count, last_video_count)
           THEN /\ last_video_count' = count
                /\ consecutive_same_count' = 0
           ELSE /\ consecutive_same_count' = consecutive_same_count + 1
                /\ UNCHANGED last_video_count
        /\ max_observed' = Max(max_observed, count)
        /\ since_growth' = IF count > max_observed THEN 0 ELSE since_growth + 1
    /\ UNCHANGED <<pcB, images, disk, item_state, downloaded_count>>
    /\ UNCHANGED ItemLocals
    /\ UNCHANGED <<varsA, varsC>>

\* The while condition fails: "Finished scrolling" is printed.
ScrollFinished ==
    /\ pcB = "scroll"
    /\ ~Scrolling
    /\ pcB' = "scrolled"
    /\ UNCHANGED <<images, disk, item_state, downloaded_count>>
    /\ UNCHANGED <<ScrollLocals, ItemLocals>>
    /\ UNCHANGED <<varsA, varsC>>

\* scroll_to_end returns (its locals are gone) and the thumbnail elements are
\* enumerated: there is at least one.
Locate ==
    /\ pcB = "scrolled"
    /\ \E n \in 1..MaxImages :
        /\ images' = n
        /\ item_state' = [i \in 1..n |-> "Located"]
    /\ last_video_count' = 0
    /\ consecutive_same_count' = 0
    /\ current_video_count' = 0
    /\ max_observed' = 0
    /\ since_growth' = 0
    /\ downloaded_count' = 0
    /\ pcB' = "for"
    /\ UNCHANGED disk
    /\ UNCHANGED ItemLocals
    /\ UNCHANGED <<varsA, varsC>>

\* "if not images": the run ends with a diagnostic.
NoImages ==
    /\ pcB = "scrolled"
    /\ images' = 0
    /\ last_video_count' = 0
    /\ consecutive_same_count' = 0
    /\ current_video_count' = 0
    /\ max_observed' = 0
    /\ since_growth' = 0
    /\ pcB' = "no_images"
    /\ UNCHANGED <<disk, item_state, downloaded_count>>
    /\ UNCHANGED ItemLocals
    /\ UNCHANGED <<varsA, varsC>>

\* "for i, img_element in enumerate(images)": the next element is taken up.
ForNext ==
    /\ pcB = "for"
    /\ idx < images
    /\ idx' = idx + 1
    /\ src' = NoneValue
    /\ attempt' = 0
    /\ reads' = 0
    /\ bad_reads' = 0
    /\ slept' = 0
    /\ cleaned_src' = NoneValue
    /\ local_path' = 0
    /\ pcB' = "poll"
    /\ UNCHANGED <<images, disk, item_state, downloaded_count>>
    /\ UNCHANGED ScrollLocals
    /\ UNCHANGED <<varsA, varsC>>

\* The enumeration is exhausted: "Scraping complete".
ForDone ==
    /\ pcB = "for"
    /\ idx = images
    /\ pcB' = "done"
    /\ UNCHANGED <<images, disk, item_state, downloaded_count>>
    /\ UNCHANGED <<ScrollLocals, ItemLocals>>
    /\ UNCHANGED <<varsA, varsC>>

\* One pass of the polling loop: read the attribute; break if it is
\* populated, sleep wait_step otherwise.
PollRead ==
    /\ pcB = "poll"
    /\ attempt < poll_attempts
    /\ \E value \in SrcValues :
        /\ src' = value
        /\ reads' = reads + 1
        /\ IF Populated(value)
           THEN /\ pcB' = "check"
                /\ UNCHANGED <<attempt, bad_reads, slept>>
           ELSE /\ bad_reads' = bad_reads + 1
                /\ slept' = slept + 1
                /\ attempt' = attempt + 1
                /\ pcB' = "poll"
    /\ UNCHANGED <<images, disk, item_state, downloaded_count>>
    /\ UNCHANGED <<idx, cleaned_src, local_path>>
    /\ UNCHANGED ScrollLocals
    /\ UNCHANGED <<varsA, varsC>>

\* range(...) is exhausted without a break.
PollExhausted ==
    /\ pcB = "poll"
    /\ attempt >= poll_attempts
    /\ pcB' = "check"
    /\ UNCHANGED <<images, disk, item_state, downloaded_count>>
    /\ UNCHANGED <<ScrollLocals, ItemLocals>>
    /\ UNCHANGED <<varsA, varsC>>

\* "if not src or src.startswith('data:')": skip message, continue.
SkipNoAttribute ==
    /\ pcB = "check"
    /\ (Falsy(src) \/ StartsWithData(src))
    /\ item_state' = [item_state EXCEPT ![idx] = "Skipped_no_attribute"]
    /\ pcB' = "for"
    /\ UNCHANGED <<images, disk, downloaded_count>>
    /\ UNCHANGED <<ScrollLocals, ItemLocals>>
    /\ UNCHANGED <<varsA, varsC>>

\* The attribute is accepted and its query component stripped.
AcquireAttribute ==
    /\ pcB = "check"
    /\ ~(Falsy(src) \/ StartsWithData(src))
    /\ cleaned_src' = SplitQuery(src)
    /\ item_state' = [item_state EXCEPT ![idx] = "AttributeAcquired"]
    /\ pcB' = "download"
    /\ UNCHANGED <<images, disk, downloaded_count>>
    /\ UNCHANGED <<idx, src, attempt, reads, bad_reads, slept, local_path>>
    /\ UNCHANGED ScrollLocals
    /\ UNCHANGED <<varsA, varsC>>

\* download_file: "if not url" returns None before anything is requested.
DownloadEmptyUrl ==
    /\ pcB = "download"
    /\ cleaned_src = <<>>
    /\ local_path' = 0
    /\ item_state' = [item_state EXCEPT ![idx] = "Skipped_download_failed"]
    /\ pcB' = "for"
    /\ UNCHANGED <<images, disk, downloaded_count>>
    /\ UNCHANGED <<idx, src, attempt, reads, bad_reads, slept, cleaned_src>>
    /\ UNCHANGED ScrollLocals
    /\ UNCHANGED <<varsA, varsC>>

\* download_file: the body arrives whole and is written; the path is returned.
DownloadOk ==
    /\ pcB = "download"
    /\ cleaned_src # <<>>
    /\ \E body \in ServedFiles : disk' = [disk EXCEPT ![idx] = body]
    /\ local_path' = idx
    /\ item_state' = [item_state EXCEPT ![idx] = "Downloaded"]
    /\ pcB' = "crop"
    /\ UNCHANGED <<images, downloaded_count>>
    /\ UNCHANGED <<idx, src, attempt, reads, bad_reads, slept, cleaned_src>>
    /\ UNCHANGED ScrollLocals
    /\ UNCHANGED <<varsA, varsC>>

\* A slip that lets the exception of a failed request leave download_file.
DownloadFailureEscapes ==
    /\ pcB = "download"
    /\ cleaned_src # <<>>
    /\ pcB' = "crashed"
    /\ UNCHANGED <<images, disk, item_state, downloaded_count>>
    /\ UNCHANGED <<ScrollLocals, ItemLocals>>
    /\ UNCHANGED <<varsA, varsC>>

\* download_file: requests.get raises (no response, timeout) or
\* raise_for_status raises (4xx, 5xx), before the file is opened: caught,
\* None is returned.
DownloadFailsBeforeBody ==
    /\ pcB = "download"
    /\ cleaned_src # <<>>
    /\ local_path' = 0
    /\ item_state' = [item_state EXCEPT ![idx] = "Skipped_download_failed"]
    /\ pcB' = "for"
    /\ UNCHANGED <<images, disk, downloaded_count>>
    /\ UNCHANGED <<idx, src, attempt, reads, bad_reads, slept, cleaned_src>>
    /\ UNCHANGED ScrollLocals
    /\ UNCHANGED <<varsA, varsC>>

\* download_file: iter_content raises while the body is being written.  The
\* file was opened with "wb" and holds the chunks written so far; the
\* exception is caught and None is returned.
DownloadBreaksOff ==
    /\ pcB = "download"
    /\ cleaned_src # <<>>
    /\ disk' = [disk EXCEPT ![idx] = Partial]
    /\ local_path' = 0
    /\ item_state' = [item_state EXCEPT ![idx] = "Skipped_download_failed"]
    /\ pcB' = "for"
    /\ UNCHANGED <<images, downloaded_count>>
    /\ UNCHANGED <<idx, src, attempt, reads, bad_reads, slept, cleaned_src>>
    /\ UNCHANGED ScrollLocals
    /\ UNCHANGED <<varsA, varsC>>

\* The per-item state a call of crop_to_16_9 ends in.
StateAfterCrop(outcome) ==
    CASE outcome = "cropped" -> "Cropped"
      [] outcome = "left" -> "LeftUncropped"
      [] outcome = "error" -> "Skipped_crop_error"

\* "if local_path": crop_to_16_9(local_path), downloaded_count += 1.
CropDownloaded ==
    /\ pcB = "crop"
    /\ local_path # 0
    /\ LET r == crop_to_16_9(disk[local_path]) IN
        /\ disk' = [disk EXCEPT ![local_path] = r.file]
        /\ item_state' = [item_state EXCEPT ![idx] = StateAfterCrop(r.outcome)]
    /\ downloaded_count' = downloaded_count + 1
    /\ pcB' = "for"
    /\ UNCHANGED images
    /\ UNCHANGED <<ScrollLocals, ItemLocals>>
    /\ UNCHANGED <<varsA, varsC>>

NextB ==
    \/ ScrollAttempt
    \/ ScrollFinished
    \/ Locate
    \/ NoImages
    \/ ForNext
    \/ ForDone
    \/ PollRead
    \/ PollExhausted
    \/ SkipNoAttribute
    \/ AcquireAttribute
    \/ DownloadEmptyUrl
    \/ DownloadOk
    \/ DownloadFailsBeforeBody
    \/ DownloadBreaksOff
    \/ CropDownloaded

SpecB == InitB /\ [][NextB]_vars

\* The script is one thread that runs until it returns: it never stops at a
\* step it can take.
FairSpecB == SpecB /\ WF_vars(NextB)

(***************************************************************************)
(* Properties of Pipeline B                                                *)
(***************************************************************************)
\* A step that is one pass of the while body of scroll_to_end.
IsAttempt == pcB = "scroll" /\ pcB' = "scroll"

\* C4 as stated: on every attempt the stall counter is reset and the count
\* remembered exactly when the count is higher than at the previous attempt,
\* and goes up by one otherwise; the loop stops exactly when it reaches 10.
C4_ResetOnGrowthSincePrevious ==
    [][/\ IsAttempt =>
            /\ consecutive_same_count < 10
            /\ IF current_video_count' > current_video_count
               THEN consecutive_same_count' = 0 /\ last_video_count' = current_video_count'
               ELSE consecutive_same_count' = consecutive_same_count + 1
       /\ (pcB = "scroll" /\ pcB' # "scroll") => consecutive_same_count = 10]_vars

\* C4 as amended: on every attempt the stall counter is reset and the count
\* remembered exactly when the count is higher than the remembered count (the
\* highest seen so far), and goes up by one, the remembered count staying,
\* otherwise; the loop stops exactly when the counter reaches 10.
C4_ResetOnNewMaximum ==
    [][/\ IsAttempt =>
            /\ consecutive_same_count < 10
            /\ IF current_video_count' > last_video_count
               THEN consecutive_same_count' = 0 /\ last_video_count' = current_video_count'
               ELSE /\ consecutive_same_count' = consecutive_same_count + 1
                    /\ last_video_count' = last_video_count
       /\ (pcB = "scroll" /\ pcB' # "scroll") => consecutive_same_count = 10]_vars

\* The count has fallen below the remembered one and stayed there for
\* several attempts, nonzero.
C4_Witness ==
    /\ pcB = "scroll"
    /\ current_video_count >= 1
    /\ current_video_count < last_video_count
    /\ consecutive_same_count >= 3

\* The element in hand has been through the polling loop and the check
\* after it.
Polled == idx >= 1 /\ pcB \in {"for", "download", "crop", "done"}

\* C5: for every element the attribute is read at most 5 times and the loop
\* sleeps at most 5 seconds in all; it reads no further once a read returned
\* a populated value; the element is skipped exactly when all 5 reads
\* returned an empty or placeholder value.
C5_PollWithinBudget ==
    /\ reads <= 5
    /\ slept * wait_step <= 5
    /\ bad_reads <= reads
    /\ reads <= bad_reads + 1
    /\ (pcB = "poll" => reads = bad_reads)
    /\ (reads > bad_reads => Populated(src))
    /\ (Polled => (item_state[idx] = "Skipped_no_attribute" <=> (reads = 5 /\ bad_reads = 5)))

\* An element was skipped after the whole budget was slept through.
C5_Witness ==
    /\ Polled
    /\ item_state[idx] = "Skipped_no_attribute"
    /\ slept = 5
    /\ StartsWithData(src)

Terminal == {"Skipped_no_attribute", "Skipped_download_failed", "Skipped_crop_error",
             "Cropped", "LeftUncropped"}

Transitions ==
    { <<"Located", "AttributeAcquired">>, <<"Located", "Skipped_no_attribute">>,
      <<"AttributeAcquired", "Downloaded">>, <<"AttributeAcquired", "Skipped_download_failed">>,
      <<"Downloaded", "Cropped">>, <<"Downloaded", "LeftUncropped">>,
      <<"Downloaded", "Skipped_crop_error">> }

Running == pcB \in {"scroll", "scrolled", "for", "poll", "check", "download", "crop"}

\* C8: the state of an element changes only while it is the element in hand,
\* elements are taken up in enumeration order, every change is one of the
\* transitions of the per-item machine (none leaves a terminal state), and
\* when the run over a non-empty enumeration ends every element is in a
\* terminal state, whatever the elements before it ended in.
C8_ItemMachine ==
    [][/\ idx' \in {idx, idx + 1}
       /\ \A i \in (DOMAIN item_state) \cap (DOMAIN item_state') :
            item_state'[i] # item_state[i] =>
                /\ i = idx
                /\ idx' = idx
                /\ <<item_state[i], item_state'[i]>> \in Transitions
       /\ (~Running' /\ images' >= 1) =>
            /\ DOMAIN item_state' = 1..images'
            /\ \A i \in 1..images' : item_state'[i] \in Terminal]_vars

\* The run ended with an element processed after each kind of skip.
C8_Witness ==
    /\ pcB = "done"
    /\ images >= 2
    /\ item_state[1] \in {"Skipped_download_failed", "Skipped_crop_error", "Skipped_no_attribute"}
    /\ item_state[images] \in {"Cropped", "LeftUncropped"}

CropApplied == {"Cropped", "LeftUncropped", "Skipped_crop_error"}

\* C9 as stated: an element whose download failed, at whatever point, has no
\* path returned and no file under its filename, and is neither cropped nor
\* counted; the caller goes on to the next element.
C9_FailedDownloadLeavesNothing ==
    /\ \A i \in DOMAIN item_state :
        item_state[i] = "Skipped_download_failed" =>
            /\ disk[i] = Absent
            /\ (i = idx => (local_path = 0 /\ pcB \in {"for", "done"}))
    /\ (pcB \in {"for", "done"} =>
            downloaded_count = Cardinality({ i \in DOMAIN item_state : item_state[i] \in CropApplied }))

\* C10: scroll_to_end terminates (the row count is bounded), and when it has,
\* none of the last 10 attempts observed a count above all counts before it,
\* and the remembered count is the highest count any attempt observed.
C10_ScrollTerminates ==
    /\ <>(pcB # "scroll")
    /\ [](pcB = "scrolled" =>
            /\ since_growth >= 10
            /\ last_video_count = max_observed)

\* The loop has ended after the count grew more than once.
C10_Witness ==
    /\ pcB = "scrolled"
    /\ last_video_count >= 2
    /\ current_video_count < last_video_count

(***************************************************************************)
(* Properties of crop_to_16_9                                              *)
(***************************************************************************)
\* t = floor(9 * w / 16), said without the division
IsFloorOf16By9(t, w) == 16 * t <= 9 * w /\ 9 * w < 16 * (t + 1)

RowsOffTop(before, after) == after.top - before.top
RowsOffBottom(before, after) == before.bottom - after.bottom

\* The statement of C6 for the images at least MinW pixels wide.
TrimmedTo16By9(MinW) ==
    (calls >= 1 /\ original.kind = "image" /\ original.w >= MinW
        /\ \E t \in 0..Height(original) - 1 : IsFloorOf16By9(t, original.w))
    => LET excess == Height(original) - (CHOOSE t \in 0..Height(original) : IsFloorOf16By9(t, original.w))
       IN  /\ after_first.kind = "image"
           /\ after_first.w = original.w
           /\ IsFloorOf16By9(Height(after_first), original.w)
           /\ RowsOffTop(original, after_first) = excess \div 2
           /\ RowsOffBottom(original, after_first) = excess - excess \div 2
           /\ RowsOffBottom(original, after_first) - RowsOffTop(original, after_first) \in {0, 1}

\* C6 as stated: every image of width W and height H > floor(9W/16) is saved
\* W wide and exactly floor(9W/16) high, (H - target) div 2 rows gone from
\* the top and the rest of the excess, at most one row more, from the bottom.
C6_EveryImageTrimmed == TrimmedTo16By9(1)

\* C6 as amended: the same for every image at least 2 pixels wide, where the
\* target height is at least one row.
C6_TrimmedTo16By9 == TrimmedTo16By9(2)

\* An image with an odd excess of at least three rows has been cropped.
C6_Witness ==
    /\ calls >= 1
    /\ original.kind = "image"
    /\ original.w >= 2
    /\ after_first.kind = "image"
    /\ RowsOffTop(original, after_first) >= 1
    /\ RowsOffBottom(original, after_first) = RowsOffTop(original, after_first) + 1

\* C7: an image no higher than floor(9W/16) is never written, no call leaves
\* an image higher than the one it was given, and a second call leaves the
\* file the first call left.
C7_NeverUpsizesIdempotent ==
    /\ (original.kind = "image"
            /\ \E t \in Height(original)..9 * original.w : IsFloorOf16By9(t, original.w))
        => (saves = 0 /\ file = original)
    /\ (file.kind = "image" => Height(file) <= Height(original) /\ file.w = original.w)
    /\ (calls >= 2 => file = after_first)

\* A second call on an image the first call cropped.
C7_Witness ==
    /\ calls >= 2
    /\ saves = 1
    /\ file.kind = "image"
    /\ Height(file) < Height(original)

====
